---- MODULE Spec2Model ----
(***************************************************************************)
(* A model of the eudi age-credential program (src/main.go): a wallet that *)
(* issues a credential carrying a Groth16 proof of the AgeCheckCircuit,    *)
(* and the verification of such a credential.                              *)
(*                                                                         *)
(* The Go functions are operators computed as the code computes them; the  *)
(* actions are calls of these functions by a driver.  main (lines 120-133) *)
(* is the run InitCircuit, issueCredential, verifyCredential; the driver   *)
(* also calls Wallet.IssueCredential with other subjects, calls            *)
(* InitCircuit again, and changes what it hands to the verifier.           *)
(*                                                                         *)
(* The gnark backend is outside the repository.  It is modelled by what it *)
(* guarantees: Prove returns a proof exactly when the witness satisfies    *)
(* the constraints of Define, and Verify accepts exactly an unaltered      *)
(* proof under the verifying key of the proof's setup run and the public   *)
(* witness the proof was made for.                                         *)
(*                                                                         *)
(* Strings whose characters the code reads are sequences of one-character  *)
(* strings.  Time is the calendar year of the clock reading.               *)
(***************************************************************************)
EXTENDS Integers, Sequences, FiniteSets, TLC

\* Number of groth16.Setup runs a behaviour may contain.
MaxSetups == 2

\* Number of credentials a wallet may hold in a behaviour.
MaxWallet == 1

\* The clock reads a year in 2001 .. 2001 + ClockSpan.  time.Now() is an input
\* the program does not control; these years put the subject born in 1984
\* at the differences 17, 18, 19 and 20.
ClockSpan == 3

ClockYears == 2001..(2001 + ClockSpan)

\* ecc.BN254.ScalarField(): the modulus of the field the circuit computes in.
\* The real modulus has 254 bits; the model keeps a prime that is, like it,
\* far above every year and every difference of years a Go int can hold here.
FieldModulus == 65537

\* The constant the circuit compares the age with.
AgeThreshold == 18

----------------------------------------------------------------------------
(* Go values *)

\* A value of type interface{} in the subject map: a Go string or a Go int.
\* The one string whose characters the code reads, birthDate, is a sequence
\* of one-character strings.
StringVal(s) == [type |-> "string", str |-> s, num |-> 0]

IntVal(n) == [type |-> "int", str |-> <<>>, num |-> n]

\* "1984-01-01", the birthDate of the subject main issues for.
MainBirthDate == <<"1","9","8","4","-","0","1","-","0","1">>

\* The subject map literal (lines 88-94), with birthDate bound to v.
SubjectWith(v) ==
    [id          |-> "did:example:user123",
     givenName   |-> "Adrien",
     familyName  |-> "Smith",
     birthDate   |-> v,
     nationality |-> "FR"]

\* The same map without a birthDate entry.
SubjectWithout ==
    [id          |-> "did:example:user123",
     givenName   |-> "Adrien",
     familyName  |-> "Smith",
     nationality |-> "FR"]

MainSubject == SubjectWith(StringVal(MainBirthDate))

\* A nil map (the Subject of the zero Credential).
NilSubject == [x \in {} |-> ""]

\* A *AgeCheckCircuit: nil, or an assignment whose two variables are each
\* unassigned (a nil frontend.Variable) or hold a Go int.
Unassigned == [set |-> FALSE, v |-> 0]

Assigned(n) == [set |-> TRUE, v |-> n]

NilCircuit == [isNil |-> TRUE, BirthYear |-> Unassigned, CurrentYear |-> Unassigned]

\* A *groth16.Proof: nil, or a proof made under the proving key of setup run
\* `setup` for the public witness `public`; intact is FALSE once its bytes
\* have been altered.
NilProof == [isNil |-> TRUE, setup |-> 0, public |-> 0, intact |-> FALSE]

\* Credential{}, the zero value.
ZeroCredential ==
    [ID           |-> [prefix |-> "", nano |-> 0],
     Type         |-> <<>>,
     Issuer       |-> "",
     IssuanceDate |-> 0,
     Subject      |-> NilSubject,
     Proof        |-> NilProof]

\* A *Credential: nil, or a pointer to a credential.
NilCredential == [isNil |-> TRUE, val |-> ZeroCredential]

PtrTo(c) == [isNil |-> FALSE, val |-> c]

\* The keys main holds before InitCircuit has returned.
NoKeys == [pk |-> 0, vk |-> 0]

----------------------------------------------------------------------------
(* fmt.Sscanf(s, "%d", &n): line 50 *)

Digits == {"0","1","2","3","4","5","6","7","8","9"}

DigitVal(c) ==
    CASE c = "0" -> 0 [] c = "1" -> 1 [] c = "2" -> 2 [] c = "3" -> 3
      [] c = "4" -> 4 [] c = "5" -> 5 [] c = "6" -> 6 [] c = "7" -> 7
      [] c = "8" -> 8 [] c = "9" -> 9

\* The input after its leading blanks (the verb %d skips them).
RECURSIVE SkipSpace(_)
SkipSpace(s) ==
    IF s # <<>> /\ Head(s) = " " THEN SkipSpace(Tail(s)) ELSE s

\* The number of leading decimal digits of s: the token %d accepts.
RECURSIVE DigitRun(_)
DigitRun(s) ==
    IF s # <<>> /\ Head(s) \in Digits THEN 1 + DigitRun(Tail(s)) ELSE 0

\* The value of the first n characters of s, all digits, after acc.
RECURSIVE DigitsValue(_, _, _)
DigitsValue(s, n, acc) ==
    IF n = 0 THEN acc
    ELSE DigitsValue(Tail(s), n - 1, 10 * acc + DigitVal(Head(s)))

\* Sscanf with the format "%d": blanks, an optional sign, then at least one
\* decimal digit; the scan stops at the first character that is no digit and
\* whatever follows is left unread.  err is "" for a nil error.
Sscanf(s) ==
    LET s1     == SkipSpace(s)
        signed == s1 # <<>> /\ Head(s1) \in {"+", "-"}
        s2     == IF signed THEN Tail(s1) ELSE s1
        n      == DigitRun(s2)
        mag    == DigitsValue(s2, n, 0)
    IN  IF s2 = <<>> THEN [val |-> 0, err |-> "unexpected EOF"]
        ELSE IF n = 0 THEN [val |-> 0, err |-> "expected integer"]
        ELSE [val |-> IF signed /\ Head(s1) = "-" THEN 0 - mag ELSE mag,
              err |-> ""]

----------------------------------------------------------------------------
(* The circuit and the backend *)

\* A Go int as an element of the field: its residue in 0 .. FieldModulus-1.
ToField(x) == x % FieldModulus

\* api.Sub: subtraction in the field.
Sub(a, b) == ToField(a - b)

\* api.Cmp: 1 if a > b, 0 if a = b, -1 if a < b, comparing the two field
\* elements by their bits, that is as the integers 0 .. FieldModulus-1.
Cmp(a, b) ==
    IF a > b THEN ToField(1) ELSE IF a = b THEN ToField(0) ELSE ToField(0 - 1)

\* Define with the operands of Cmp exchanged: 18 compared with the age.
Define_OperandsExchanged(w) ==
    LET age      == Sub(w.CurrentYear, w.BirthYear)
        isOver18 == Cmp(ToField(AgeThreshold), age)
    IN  isOver18 = ToField(1)

\* AgeCheckCircuit.Define: whether a full witness satisfies the constraints.
Define(w) ==
    LET age      == Sub(w.CurrentYear, w.BirthYear)
        isOver18 == Cmp(age, ToField(AgeThreshold))
    IN  isOver18 = ToField(1)

\* frontend.NewWitness: every variable of the assignment must hold a value.
NewWitness(assignment) ==
    IF assignment.BirthYear.set /\ assignment.CurrentYear.set
    THEN [err |-> "",
          BirthYear   |-> ToField(assignment.BirthYear.v),
          CurrentYear |-> ToField(assignment.CurrentYear.v)]
    ELSE [err |-> "missing assignment", BirthYear |-> 0, CurrentYear |-> 0]

\* witness.Public: the public part of a witness.  It has no error for a
\* witness NewWitness returned over this field.
Public(w) == w.CurrentYear

\* groth16.Prove: the solver runs the constraints on the witness and Prove
\* fails when one is violated.
Prove(pk, w) ==
    IF Define(w)
    THEN [err |-> "",
          proof |-> [isNil |-> FALSE, setup |-> pk, public |-> Public(w),
                     intact |-> TRUE]]
    ELSE [err |-> "constraint is not satisfied", proof |-> NilProof]

\* groth16.Verify: "" when the proof is accepted, the error otherwise.
Verify(proof, vk, publicWitness) ==
    IF proof.intact /\ proof.setup = vk /\ proof.public = publicWitness
    THEN ""
    ELSE "pairing check failed"

\* generateZKProof (lines 186-206).
generateZKProof(pk, birthYear, currentYear) ==
    LET assignment == [isNil |-> FALSE,
                       BirthYear   |-> Assigned(birthYear),
                       CurrentYear |-> Assigned(currentYear)]
        witness    == NewWitness(assignment)
        proved     == Prove(pk, witness)
    IN  IF witness.err # ""
        THEN [proof |-> NilProof, circuit |-> NilCircuit, err |-> witness.err]
        ELSE IF proved.err # ""
        THEN [proof |-> NilProof, circuit |-> NilCircuit, err |-> proved.err]
        ELSE [proof |-> proved.proof, circuit |-> assignment, err |-> ""]

\* verifyZKProof without the call of groth16.Verify.
verifyZKProof_WithoutVerify(circuit, proof, vk) ==
    LET witness == NewWitness(circuit)
    IN  IF witness.err # "" THEN [panic |-> FALSE, err |-> witness.err]
        ELSE IF proof.isNil THEN [panic |-> TRUE, err |-> ""]
        ELSE [panic |-> FALSE, err |-> ""]

\* verifyZKProof (lines 208-229): the error returned ("" for nil) or a panic
\* when the nil proof is dereferenced at line 222.
verifyZKProof(circuit, proof, vk) ==
    LET witness == NewWitness(circuit)
    IN  IF witness.err # "" THEN [panic |-> FALSE, err |-> witness.err]
        ELSE IF proof.isNil THEN [panic |-> TRUE, err |-> ""]
        ELSE [panic |-> FALSE, err |-> Verify(proof, vk, Public(witness))]

\* VerifyCredential returning true whatever verifyZKProof returned.
VerifyCredential_ErrorIgnored(circuit, cred, vk) ==
    IF cred.isNil THEN [panic |-> TRUE, valid |-> FALSE, err |-> ""]
    ELSE LET r == verifyZKProof(circuit, cred.val.Proof, vk)
         IN  IF r.panic THEN [panic |-> TRUE, valid |-> FALSE, err |-> ""]
             ELSE [panic |-> FALSE, valid |-> TRUE, err |-> r.err]

\* VerifyCredential (lines 78-84).  A nil credential panics at line 79, where
\* cred.Proof is read.  The only caller passes a nil circuit together with a
\* nil credential, so NewWitness never sees a nil assignment.
VerifyCredential(circuit, cred, vk) ==
    IF cred.isNil THEN [panic |-> TRUE, valid |-> FALSE, err |-> ""]
    ELSE LET r == verifyZKProof(circuit, cred.val.Proof, vk)
         IN  IF r.panic THEN [panic |-> TRUE, valid |-> FALSE, err |-> ""]
             ELSE IF r.err # "" THEN [panic |-> FALSE, valid |-> FALSE, err |-> r.err]
             ELSE [panic |-> FALSE, valid |-> TRUE, err |-> r.err]

\* Line 73 without effect.
append_Forgotten(w, c) == w

\* w.Credentials = append(w.Credentials, cred): line 73.
append(w, c) == Append(w, c)

\* Wallet.IssueCredential (lines 41-76) on a wallet holding the credentials
\* w, at a clock reading `now`: the three values returned and the wallet's
\* credentials afterwards.  The three readings of time.Now() (lines 56, 65
\* and 68) fall in the same year `now`.  The parameter vk is not used.
WalletIssueCredential(w, pk, subject, now) ==
    LET failed(e) == [cred |-> ZeroCredential, circuit |-> NilCircuit,
                      err |-> e, Credentials |-> w]
        ok        == "birthDate" \in DOMAIN subject
                     /\ subject["birthDate"].type = "string"
        scanned   == Sscanf(subject["birthDate"].str)
        birthYear == scanned.val
        zk        == generateZKProof(pk, birthYear, now)
        cred      == [ID           |-> [prefix |-> "urn:uuid:", nano |-> now],
                      Type         |-> <<"VerifiableCredential",
                                         "eIDASIdentityCredential">>,
                      Issuer       |-> "did:example:issuer123",
                      IssuanceDate |-> now,
                      Subject      |-> subject,
                      Proof        |-> zk.proof]
    IN  IF ~ok THEN failed("birthDate field is missing or not a string")
        ELSE IF scanned.err # "" THEN failed("failed to parse birth year")
        ELSE IF zk.err # "" THEN failed("failed to generate ZKP proof")
        ELSE [cred |-> cred, circuit |-> zk.circuit, err |-> "",
              Credentials |-> append(w, cred)]

----------------------------------------------------------------------------------------------------------------------------------------
(* The state *)

VARIABLES
    wallet,     \* Wallet.Credentials: the sequence of stored credentials
    keys,       \* main's pk and vk: the setup run each comes from
    setups,     \* how many times groth16.Setup has run
    call,       \* the frame of the call of Wallet.IssueCredential that has just
                \* returned: its arguments, the wallet before it and the three
                \* values returned; gone (NoCall) with the next step
    cred,       \* main's cred, the *Credential issueCredential returned
    circuit,    \* main's circuit, the *AgeCheckCircuit issueCredential returned
    out,        \* the frame of the call of VerifyCredential that has just
                \* returned: its arguments, what it returned and what
                \* verifyCredential printed; gone (NoOut) with the next step
    pc          \* where the driver is: "start", "ready" (keys made), "issued"
                \* (cred and circuit bound), "crashed" (the process panicked)

vars == <<wallet, keys, setups, call, cred, circuit, out, pc>>

\* The birthDate strings subjects come with.
BirthDates ==
    { MainBirthDate,
      <<"1","9","9","0","-","0","1","-","0","1">>,
      <<"2","0","0","3","-","0","1","-","0","1">>,
      <<"1","9","8","4">>,
      <<"1","9","8","4","-","x","x","-","y","y">>,
      <<"n","o","t","-","a","-","d","a","t","e">>,
      <<>> }

\* The subjects Wallet.IssueCredential is called with: a birthDate string,
\* a birthDate that is no string, no birthDate.
Subjects ==
    { SubjectWith(StringVal(d)) : d \in BirthDates }
        \cup { SubjectWith(IntVal(1984)), SubjectWithout }

NoCall ==
    [made |-> FALSE, subject |-> NilSubject, now |-> 0, pk |-> 0, vk |-> 0,
     before |-> <<>>, cred |-> ZeroCredential, circuit |-> NilCircuit,
     err |-> ""]

NoOut ==
    [done |-> FALSE, altered |-> "", circuit |-> NilCircuit,
     cred |-> NilCredential, vk |-> 0,
     panic |-> FALSE, valid |-> FALSE, err |-> "", msg |-> ""]

\* NewWallet (lines 34-38) and the start of main.
Init ==
    /\ wallet = <<>>
    /\ keys = NoKeys
    /\ setups = 0
    /\ call = NoCall
    /\ cred = NilCredential
    /\ circuit = NilCircuit
    /\ out = NoOut
    /\ pc = "start"

\* InitCircuit (lines 167-184): compiles the circuit and runs groth16.Setup,
\* which draws fresh randomness, so every run yields a key pair of its own.
\* Nothing remembers an earlier run.
InitCircuit ==
    /\ pc # "crashed"
    /\ setups < MaxSetups
    /\ setups' = setups + 1
    /\ keys' = [pk |-> setups + 1, vk |-> setups + 1]
    /\ pc' = IF pc = "start" THEN "ready" ELSE pc
    /\ call' = NoCall
    /\ out' = NoOut
    /\ UNCHANGED <<wallet, cred, circuit>>

\* The record of a call of Wallet.IssueCredential that returned r.
CallRecord(subject, now, r) ==
    [made |-> TRUE, subject |-> subject, now |-> now, pk |-> keys.pk,
     vk |-> keys.vk, before |-> wallet, cred |-> r.cred,
     circuit |-> r.circuit, err |-> r.err]

\* A call of Wallet.IssueCredential (lines 41-76) for any subject.
IssueCredential(subject, now) ==
    /\ pc \in {"ready", "issued"}
    /\ Len(wallet) < MaxWallet
    /\ LET r == WalletIssueCredential(wallet, keys.pk, subject, now)
       IN  /\ wallet' = r.Credentials
           /\ call' = CallRecord(subject, now, r)
    /\ out' = NoOut
    /\ UNCHANGED <<keys, setups, cred, circuit, pc>>

\* issueCredential (lines 87-104): issues for the subject literal and
\* returns two nil pointers when the issuance failed.
issueCredential(now) ==
    /\ pc \in {"ready", "issued"}
    /\ Len(wallet) < MaxWallet
    /\ LET r == WalletIssueCredential(wallet, keys.pk, MainSubject, now)
       IN  /\ wallet' = r.Credentials
           /\ call' = CallRecord(MainSubject, now, r)
           /\ cred' = IF r.err # "" THEN NilCredential ELSE PtrTo(r.cred)
           /\ circuit' = IF r.err # "" THEN NilCircuit ELSE r.circuit
    /\ out' = NoOut
    /\ pc' = "issued"
    /\ UNCHANGED <<keys, setups>>

\* What verifyCredential prints for a result of VerifyCredential.
Printed(r) ==
    IF r.panic THEN ""
    ELSE IF r.err # "" THEN "Verification error"
    ELSE IF r.valid THEN "Credential is valid."
    ELSE "Credential is not valid."

\* The record of a call VerifyCredential(ci, cr, keys.vk).
OutRecord(altered, ci, cr) ==
    LET r == VerifyCredential(ci, cr, keys.vk)
    IN  [done |-> TRUE, altered |-> altered, circuit |-> ci, cred |-> cr,
         vk |-> keys.vk, panic |-> r.panic, valid |-> r.valid, err |-> r.err,
         msg |-> Printed(r)]

\* verifyCredential (lines 106-118) on main's cred, circuit and vk.
verifyCredential ==
    /\ pc = "issued"
    /\ out' = OutRecord("nothing", circuit, cred)
    /\ pc' = IF out'.panic THEN "crashed" ELSE pc
    /\ call' = NoCall
    /\ UNCHANGED <<wallet, keys, setups, cred, circuit>>

\* verifyCredential on an issued credential whose assignment names another
\* public year than the one the proof was made for.
VerifyAlteredYear(y) ==
    /\ pc = "issued"
    /\ ~cred.isNil
    /\ y # circuit.CurrentYear.v
    /\ out' = OutRecord("publicYear",
                        [circuit EXCEPT !.CurrentYear = Assigned(y)], cred)
    /\ pc' = IF out'.panic THEN "crashed" ELSE pc
    /\ call' = NoCall
    /\ UNCHANGED <<wallet, keys, setups, cred, circuit>>

\* ... whose proof bytes were altered.
VerifyAlteredProof ==
    /\ pc = "issued"
    /\ ~cred.isNil
    /\ out' = OutRecord("proof", circuit,
                        [cred EXCEPT !.val.Proof.intact = FALSE])
    /\ pc' = IF out'.panic THEN "crashed" ELSE pc
    /\ call' = NoCall
    /\ UNCHANGED <<wallet, keys, setups, cred, circuit>>

\* ... whose assignment comes without the private birth year.
VerifyWithoutBirthYear ==
    /\ pc = "issued"
    /\ ~cred.isNil
    /\ out' = OutRecord("birthYear",
                        [circuit EXCEPT !.BirthYear = Unassigned], cred)
    /\ pc' = IF out'.panic THEN "crashed" ELSE pc
    /\ call' = NoCall
    /\ UNCHANGED <<wallet, keys, setups, cred, circuit>>

Next ==
    \/ InitCircuit
    \/ \E s \in Subjects, now \in ClockYears : IssueCredential(s, now)
    \/ \E now \in ClockYears : issueCredential(now)
    \/ verifyCredential
    \/ \E y \in ClockYears : VerifyAlteredYear(y)
    \/ VerifyAlteredProof
    \/ VerifyWithoutBirthYear

Spec == Init /\ [][Next]_vars

----------------------------------------------------------------------------
(* The claims *)

\* The call that has just returned read a birth year out of its subject.
HasBirthYear ==
    /\ call.made
    /\ "birthDate" \in DOMAIN call.subject
    /\ call.subject["birthDate"].type = "string"
    /\ Sscanf(call.subject["birthDate"].str).err = ""

\* currentYear - birthYear of that call, as integers.
Age == call.now - Sscanf(call.subject["birthDate"].str).val

\* The call that has just returned failed and produced nothing.
NothingIssued ==
    /\ call.err # ""
    /\ call.cred = ZeroCredential
    /\ call.cred.Proof.isNil
    /\ call.circuit.isNil
    /\ wallet = call.before

\* What VerifyCredential returns for the values the call returned, under
\* the verifying key of the InitCircuit run whose keys the call was given.
VerifiesReturned ==
    VerifyCredential(call.circuit, PtrTo(call.cred), call.vk)

\* A calendar date written YYYY-MM-DD.
DaysIn(m) == IF m = 2 THEN 29 ELSE IF m \in {4, 6, 9, 11} THEN 30 ELSE 31

TwoDigits(s, i) == 10 * DigitVal(s[i]) + DigitVal(s[i + 1])

WellFormedDate(s) ==
    /\ Len(s) = 10
    /\ \A i \in {1, 2, 3, 4, 6, 7, 9, 10} : s[i] \in Digits
    /\ s[5] = "-"
    /\ s[8] = "-"
    /\ TwoDigits(s, 6) \in 1..12
    /\ TwoDigits(s, 9) \in 1..DaysIn(TwoDigits(s, 6))

WellFormedBirthDate(subject) ==
    /\ "birthDate" \in DOMAIN subject
    /\ subject["birthDate"].type = "string"
    /\ WellFormedDate(subject["birthDate"].str)

\* C1 as stated: whenever currentYear - birthYear >= 18, the difference 18
\* included, IssueCredential succeeds and VerifyCredential accepts what it
\* returned under the verifying key of the same InitCircuit run.
C1_CompletenessFrom18 ==
    (HasBirthYear /\ Age >= AgeThreshold)
        => /\ call.err = ""
           /\ ~VerifiesReturned.panic
           /\ VerifiesReturned.valid
           /\ VerifiesReturned.err = ""

\* C1 as amended: whenever currentYear - birthYear > 18 (19 or more),
\* IssueCredential succeeds and VerifyCredential returns true and no error
\* for what it returned, under the verifying key of the same InitCircuit run.
C1_CompletenessAbove18 ==
    (HasBirthYear /\ Age > AgeThreshold)
        => /\ call.err = ""
           /\ ~VerifiesReturned.panic
           /\ VerifiesReturned.valid
           /\ VerifiesReturned.err = ""

\* A call with a difference of exactly 19 has succeeded and its credential
\* verifies.
C1_Witness ==
    /\ HasBirthYear
    /\ Age = AgeThreshold + 1
    /\ call.err = ""
    /\ wallet = Append(call.before, call.cred)
    /\ VerifiesReturned.valid

\* C2: whenever currentYear - birthYear < 18, IssueCredential returns an
\* error, no proof and no credential, and leaves the wallet as it was.
C2_Soundness ==
    (HasBirthYear /\ Age < AgeThreshold) => NothingIssued

\* C3: whenever currentYear < birthYear, proof generation fails: the call
\* returns an error and no proof.
C3_NegativeAgeRejected ==
    (HasBirthYear /\ call.now < Sscanf(call.subject["birthDate"].str).val)
        => /\ call.err # ""
           /\ call.cred.Proof.isNil

\* C4: no credential returned or stored has a birthDate entry in its
\* subject, and the assignment handed to the verifier holds no birth year.
C4_Privacy ==
    /\ \A i \in 1..Len(wallet) : "birthDate" \notin DOMAIN wallet[i].Subject
    /\ call.made => "birthDate" \notin DOMAIN call.cred.Subject
    /\ (out.done /\ ~out.cred.isNil)
          => /\ "birthDate" \notin DOMAIN out.cred.val.Subject
             /\ ~out.circuit.BirthYear.set

C6_VerifyResult ==
    (out.done /\ ~out.panic)
        => LET w == NewWitness(out.circuit)
               v == Verify(out.cred.val.Proof, out.vk, Public(w))
           IN  /\ out.valid => (w.err = "" /\ v = "" /\ out.err = "")
               /\ w.err # "" => (~out.valid /\ out.err = w.err)
               /\ (w.err = "" /\ v # "") => (~out.valid /\ out.err = v)
               /\ ~(out.valid /\ out.err # "")

\* A verification has failed in witness construction and returned false
\* with the error.
C6_Witness ==
    /\ out.done
    /\ ~out.panic
    /\ NewWitness(out.circuit).err # ""
    /\ ~out.valid
    /\ out.err # ""

\* C7: a subject whose birthDate is absent, no string, or no well-formed
\* YYYY-MM-DD date is rejected with an error; nothing is issued and the
\* wallet is unchanged.
C7_InputValidation ==
    (call.made /\ ~WellFormedBirthDate(call.subject)) => NothingIssued

C9_OneShotSetup ==
    /\ keys # NoKeys => keys = [pk |-> 1, vk |-> 1]
    /\ \A i \in 1..Len(wallet) :
          Verify(wallet[i].Proof, keys.vk, wallet[i].Proof.public) = ""

\* C10: the verification step never panics: it ends by reporting valid, not
\* valid or an error, also when issueCredential returned no credential.
C10_VerificationNeverCrashes ==
    /\ pc # "crashed"
    /\ out.done => (~out.panic /\ out.msg # "")

====
